---- MODULE Spec2Model ----
(***************************************************************************)
(* Model of openwork's agent IPC coordinator (src/main/ipc/agent.ts) and   *)
(* of its three runtime adapters (deepagents, claude-sdk, codex).          *)
(*                                                                         *)
(* Granularity.  The main process is single threaded.  An IPC handler and  *)
(* the async generator it drives run without interruption from one native  *)
(* await (network, child process, dialog) to the next: a `yield` of the    *)
(* adapter and the `if (aborted) break; send(...)` of the handler are       *)
(* chained by microtasks, and no IPC message (a macrotask) is served in    *)
(* between.  One action of the model is therefore one such uninterrupted   *)
(* stretch: a handler up to its first native await, or the settling of one *)
(* native await together with everything the adapter and the handler do    *)
(* until the next one.                                                     *)
(***************************************************************************)
EXTENDS Integers, Sequences, FiniteSets, TLC

\* Bounds of the model.
MaxRuns == 2
MaxItems == 1
MaxExecs == 2

VARIABLES
  meta,           \* conversation id -> stored thread.metadata (db)
  env,            \* process.env.OPENWORK_AGENT_RUNTIME
  globalDefault,  \* value returned by getDefaultAgentRuntime()
  activeRuns,     \* the Map<string, AbortController>: conversation -> run (0: no entry)
  runs,           \* every handler invocation so far, in submission order
  window,         \* the BrowserWindow of the renderer: "open" or "closed"
  execs,          \* calls of execFileNoThrow so far: what the child did, what was returned
  validations,    \* calls of a validator's validate so far: input, tool runs, result
  publish         \* the run of scripts/publish-npm.js: position, attempts, exit code

vars == <<meta, env, globalDefault, activeRuns, runs, window, execs, validations, publish>>

\* scripts/publish-npm.js has not been started.
NotStarted ==
  [pc |-> "start", token |-> FALSE, i |-> 1, allSucceeded |-> TRUE,
   attempts |-> <<>>, exit |-> -1]

----------------------------------------------------------------------------
\* JavaScript values.

Undefined == "undefined"
\* Tag of a stored metadata string that JSON.parse rejects.
Corrupt == "corrupt"
\* The result of an operator whose code throws.
Throws == "throws"
\* A value whose typeof is not 'string'.
NonStringValues == {"<number 42>"}

Truthy(v) == v \notin {Undefined, ""}

VALID_RUNTIMES == {"deepagents", "claude-sdk", "codex"}

isValidRuntime(value) == value \notin NonStringValues /\ value \in VALID_RUNTIMES

\* The stored thread.metadata string is represented by the object it denotes
\* (json = "object", one field per key the main process reads or writes; an
\* absent key is Undefined), or, with json = Corrupt, a string JSON.parse rejects.
Metadata(ws, rt, claude, codex) ==
  [json |-> "object", workspacePath |-> ws, agentRuntime |-> rt,
   claudeSessionId |-> claude, codexThreadId |-> codex]

CorruptMetadata ==
  [json |-> Corrupt, workspacePath |-> Undefined, agentRuntime |-> Undefined,
   claudeSessionId |-> Undefined, codexThreadId |-> Undefined]

\* JSON.parse(thread.metadata) throws a SyntaxError.
JSONParseThrows(stored) == stored.json = Corrupt

----------------------------------------------------------------------------
\* Runtime Selector.

\* Mutant for C20: the runtime resolved for the previous submit is kept.
getRuntimeTypeCached(envRuntime, stored, default) ==
  IF runs # <<>> /\ runs[Len(runs)].runtime # "none" THEN runs[Len(runs)].runtime
  ELSE IF Truthy(envRuntime) /\ isValidRuntime(envRuntime) THEN envRuntime
  ELSE IF JSONParseThrows(stored) THEN Throws
  ELSE IF Truthy(stored.agentRuntime) /\ isValidRuntime(stored.agentRuntime)
    THEN stored.agentRuntime
  ELSE IF isValidRuntime(default) THEN default
  ELSE "deepagents"

\* Mutant for C9: the metadata override is tried before the env override.
getRuntimeTypeMetadataFirst(envRuntime, stored, default) ==
  IF JSONParseThrows(stored) THEN Throws
  ELSE IF Truthy(stored.agentRuntime) /\ isValidRuntime(stored.agentRuntime)
    THEN stored.agentRuntime
  ELSE IF Truthy(envRuntime) /\ isValidRuntime(envRuntime) THEN envRuntime
  ELSE IF isValidRuntime(default) THEN default
  ELSE "deepagents"

getRuntimeType(envRuntime, stored, default) ==
  IF Truthy(envRuntime) /\ isValidRuntime(envRuntime) THEN envRuntime
  ELSE IF JSONParseThrows(stored) THEN Throws
  ELSE IF Truthy(stored.agentRuntime) /\ isValidRuntime(stored.agentRuntime)
    THEN stored.agentRuntime
  ELSE IF isValidRuntime(default) THEN default
  ELSE "deepagents"

\* switch (type) of the factory: the adapter is named by its runtime type.
createRuntime(type) ==
  IF type = "claude-sdk" THEN "claude-sdk"
  ELSE IF type = "codex" THEN "codex"
  ELSE "deepagents"

----------------------------------------------------------------------------
\* Errors a native call can fail with: name and message of the thrown Error.

E_Abort == [name |-> "AbortError", message |-> "This operation was aborted"]
E_Closed == [name |-> "TypeError", message |-> "Invalid state: Controller is already closed"]
E_Cancelled == [name |-> "Error", message |-> "Turn cancelled"]
E_Boom == [name |-> "Error", message |-> "boom"]

NativeErrors == {E_Abort, E_Closed, E_Cancelled, E_Boom}

\* error.message.includes(sub), tabulated for the messages above.
Includes(message, sub) ==
  \/ sub = "aborted" /\ message = "This operation was aborted"
  \/ sub = "Controller is already closed"
       /\ message = "Invalid state: Controller is already closed"
  \/ sub = "cancelled" /\ message = "Turn cancelled"

\* The isAbortError test of the three IPC handlers.
isAbortErrorIpc(error) ==
  \/ error.name = "AbortError"
  \/ Includes(error.message, "aborted")
  \/ Includes(error.message, "Controller is already closed")

\* The isAbortError test of the claude-sdk adapter.
isAbortErrorClaude(error) ==
  \/ error.name = "AbortError"
  \/ Includes(error.message, "aborted")
  \/ Includes(error.message, "Controller is already closed")

\* The isAbortError test of the codex adapter.
isAbortErrorCodex(error) ==
  \/ error.name = "AbortError"
  \/ Includes(error.message, "aborted")
  \/ Includes(error.message, "cancelled")

----------------------------------------------------------------------------
\* Stream events.

DoneEvent == [type |-> "done", error |-> Undefined]
ErrorEvent(msg) == [type |-> "error", error |-> msg]
TokenEvent == [type |-> "token", error |-> Undefined]
StreamEvent == [type |-> "stream", error |-> Undefined]

Terminal(e) == e.type \in {"done", "error"}

MSG_WORKSPACE_REQUIRED == "WORKSPACE_REQUIRED"
MSG_WORKSPACE_PATH == "Workspace path is required"
MSG_SYNTAX == "Unexpected token in JSON"
MSG_NO_SESSION == "No Claude session found for this thread"
MSG_CODEX_RESUME == "Resume from checkpoint not yet supported for Codex runtime"
MSG_CODEX_INTERRUPT == "Interrupt handling not yet supported for Codex runtime"
MSG_RESULT_ERRORS == "errors.join('; ')"
MSG_TURN_FAILED == "Turn failed"
MSG_STREAM_ERROR == "Stream error"

----------------------------------------------------------------------------
\* Session Identity Store (the metadata helpers of the two SDK adapters).

getSessionId(stored) ==
  IF JSONParseThrows(stored) THEN Undefined ELSE stored.claudeSessionId

getCodexThreadId(stored) ==
  IF JSONParseThrows(stored) THEN Undefined ELSE stored.codexThreadId

\* Mutant for C18: the metadata is replaced by an object holding the one key.
saveSessionIdFresh(stored, sessionId) ==
  IF JSONParseThrows(stored) THEN Throws
  ELSE Metadata(Undefined, Undefined, sessionId, Undefined)

\* saveSessionId: the new stored metadata, or Throws (JSON.parse is not guarded).
saveSessionId(stored, sessionId) ==
  IF JSONParseThrows(stored) THEN Throws
  ELSE [stored EXCEPT !.claudeSessionId = sessionId]

saveCodexThreadId(stored, codexThreadId) ==
  IF JSONParseThrows(stored) THEN Throws
  ELSE [stored EXCEPT !.codexThreadId = codexThreadId]

----------------------------------------------------------------------------
\* Runs: one record per invocation of an IPC handler (agent:invoke,
\* agent:resume, agent:interrupt).

NoCall == <<>>

\* A call of the native SDK: query (claude), startThread/resumeThread (codex),
\* agent.stream (deepagents); id is the session/thread it resumes, arg its input.
NativeCall(fn, id, arg) == [fn |-> fn, id |-> id, arg |-> arg]

NewRun(c, op, d) ==
  [conv |-> c,            \* threadId
   op |-> op,             \* "stream" (agent:invoke), "resume", "interrupt"
   decision |-> d,        \* command.resume.decision / decision.type
   runtime |-> "none",    \* adapter returned by createRuntime
   pc |-> "done",         \* native await the handler is suspended at, or "done"
   hasCtl |-> FALSE,      \* an AbortController was created for this invocation
   aborted |-> FALSE,     \* abortController.signal.aborted
   abortedBy |-> "none",  \* history: who called abort() first
   listening |-> FALSE,   \* onWindowClosed is registered on the window
   escaped |-> FALSE,     \* the handler's promise rejected (uncaught exception)
   failed |-> FALSE,      \* something threw or a native call failed in this run
   existing |-> Undefined,  \* existingSessionId / existingCodexThreadId / sessionId
   idAtBegin |-> Undefined, \* history: the identifier stored when the adapter began
   sandbox |-> Undefined, \* sandboxMode chosen at the codex gate
   calls |-> NoCall,      \* native SDK calls made, in order
   items |-> 0,           \* native messages/chunks/events consumed
   saves |-> 0,           \* writes of a native identifier by this run
   emitted |-> <<>>,      \* events the adapter's generator yielded
   forwarded |-> <<>>]    \* events sent on agent:stream:<threadId>

\* controller.abort(): sets signal.aborted; a second call changes nothing.
Abort(run, by) ==
  IF run.aborted THEN run ELSE [run EXCEPT !.aborted = TRUE, !.abortedBy = by]

\* Mutant for C36: every event is sent twice.
DeliverTwice(run, evs, ends) ==
  IF evs # <<>> /\ run.aborted
  THEN [run |-> [run EXCEPT !.emitted = Append(@, Head(evs))], finished |-> TRUE]
  ELSE [run |-> [run EXCEPT !.emitted = @ \o evs, !.forwarded = @ \o evs \o evs],
        finished |-> ends]

\* The handler's for-await loop over the events the generator yields in one
\* uninterrupted stretch: `if (abortController.signal.aborted) break` before each
\* send.  A break makes the generator return at that yield.  `ends` tells whether
\* the generator completes after these yields.
Deliver(run, evs, ends) ==
  IF evs # <<>> /\ run.aborted
  THEN [run |-> [run EXCEPT !.emitted = Append(@, Head(evs))], finished |-> TRUE]
  ELSE [run |-> [run EXCEPT !.emitted = @ \o evs, !.forwarded = @ \o evs],
        finished |-> ends]

\* The handler's catch block for an error thrown out of the generator (or by
\* the handler's own try body).
Caught(run, error) ==
  [run |-> [run EXCEPT !.failed = TRUE,
                       !.forwarded = IF isAbortErrorIpc(error) THEN @
                                     ELSE Append(@, ErrorEvent(error.message))],
   finished |-> TRUE]

\* catch block of the claude-sdk adapter, then the handler's loop.
CaughtClaude(run, error) ==
  LET run1 == [run EXCEPT !.failed = TRUE] IN
  IF isAbortErrorClaude(error) THEN Deliver(run1, <<>>, TRUE)
  ELSE Deliver(run1, <<ErrorEvent(error.message)>>, TRUE)

\* catch block of the codex adapter's stream, then the handler's loop.
CaughtCodex(run, error) ==
  LET run1 == [run EXCEPT !.failed = TRUE] IN
  IF isAbortErrorCodex(error) THEN Deliver(run1, <<>>, TRUE)
  ELSE Deliver(run1, <<ErrorEvent(error.message)>>, TRUE)

SyntaxError == [name |-> "SyntaxError", message |-> MSG_SYNTAX]

----------------------------------------------------------------------------
\* The adapters, up to their first native await.

\* deepagents: stream, resume and interrupt all start with
\* `await createAgentRuntime(...)`.
DeepagentsBegin(run) ==
  [run |-> [run EXCEPT !.pc = "create"], finished |-> FALSE]

\* claude-sdk stream: read the session id, call query({resume}), iterate.
ClaudeStreamBegin(run, stored) ==
  LET existingSessionId == getSessionId(stored) IN
  [run |-> [run EXCEPT !.existing = existingSessionId,
                       !.idAtBegin = stored.claudeSessionId,
                       !.calls = Append(@, NativeCall("query", existingSessionId, "message")),
                       !.pc = "iter"],
   finished |-> FALSE]

\* Mutant for C32: with no session stored, resume starts a new session.
ClaudeResumeBeginNewSession(run, stored) ==
  LET sessionId == getSessionId(stored)
      decision == IF Truthy(run.decision) THEN run.decision ELSE "approve"
      prompt == IF decision = "approve" THEN "Continue" ELSE "Stop"
      run1 == [run EXCEPT !.existing = sessionId, !.idAtBegin = stored.claudeSessionId]
  IN [run |-> [run1 EXCEPT !.calls = Append(@, NativeCall("query", sessionId, prompt)),
                           !.pc = "iter"],
      finished |-> FALSE]

\* claude-sdk resume.
ClaudeResumeBegin(run, stored) ==
  LET sessionId == getSessionId(stored)
      decision == IF Truthy(run.decision) THEN run.decision ELSE "approve"
      prompt == IF decision = "approve" THEN "Continue" ELSE "Stop"
      run1 == [run EXCEPT !.existing = sessionId, !.idAtBegin = stored.claudeSessionId]
  IN IF ~Truthy(sessionId) THEN Deliver(run1, <<ErrorEvent(MSG_NO_SESSION)>>, TRUE)
     ELSE [run |-> [run1 EXCEPT !.calls = Append(@, NativeCall("query", sessionId, prompt)),
                                !.pc = "iter"],
           finished |-> FALSE]

\* Mutant for C28: a reject decision issues a turn telling the agent to stop.
ClaudeInterruptBeginRejectTurn(run, stored) ==
  LET sessionId == getSessionId(stored)
      run1 == [run EXCEPT !.existing = sessionId, !.idAtBegin = stored.claudeSessionId]
  IN IF ~Truthy(sessionId) THEN Deliver(run1, <<ErrorEvent(MSG_NO_SESSION)>>, TRUE)
     ELSE [run |-> [run1 EXCEPT !.calls = Append(@, NativeCall("query", sessionId,
                                                  IF run.decision = "reject" THEN "Stop"
                                                  ELSE "Continue with the approved action")),
                                !.pc = "iter"],
           finished |-> FALSE]

\* Mutant for C29: the approved action is continued in a fresh session.
ClaudeInterruptBeginFresh(run, stored) ==
  LET sessionId == getSessionId(stored)
      run1 == [run EXCEPT !.existing = sessionId, !.idAtBegin = stored.claudeSessionId]
  IN IF ~Truthy(sessionId) THEN Deliver(run1, <<ErrorEvent(MSG_NO_SESSION)>>, TRUE)
     ELSE IF run.decision = "reject" THEN Deliver(run1, <<DoneEvent>>, TRUE)
     ELSE [run |-> [run1 EXCEPT !.calls = Append(@, NativeCall("query", Undefined,
                                                  "Continue with the approved action")),
                                !.pc = "iter"],
           finished |-> FALSE]

\* claude-sdk interrupt.
ClaudeInterruptBegin(run, stored) ==
  LET sessionId == getSessionId(stored)
      run1 == [run EXCEPT !.existing = sessionId, !.idAtBegin = stored.claudeSessionId]
  IN IF ~Truthy(sessionId) THEN Deliver(run1, <<ErrorEvent(MSG_NO_SESSION)>>, TRUE)
     ELSE IF run.decision = "reject" THEN Deliver(run1, <<DoneEvent>>, TRUE)
     ELSE [run |-> [run1 EXCEPT !.calls = Append(@, NativeCall("query", sessionId,
                                                  "Continue with the approved action")),
                                !.pc = "iter"],
           finished |-> FALSE]

\* codex stream: read the thread id, then await the pre-turn approval dialog.
CodexStreamBegin(run, stored) ==
  [run |-> [run EXCEPT !.existing = getCodexThreadId(stored),
                       !.idAtBegin = stored.codexThreadId,
                       !.pc = "gate"],
   finished |-> FALSE]

\* Mutant for C7: the generator goes on to yield done after the error.
CodexResumeThenDone(run) ==
  Deliver(run, <<ErrorEvent(MSG_CODEX_RESUME), DoneEvent>>, TRUE)

\* codex resume: one error event, whatever the arguments and the signal.
CodexResume(run) == Deliver(run, <<ErrorEvent(MSG_CODEX_RESUME)>>, TRUE)

\* codex interrupt: one error event, whatever the arguments and the signal.
CodexInterrupt(run) == Deliver(run, <<ErrorEvent(MSG_CODEX_INTERRUPT)>>, TRUE)

\* runtime.stream / runtime.resume / runtime.interrupt of the chosen adapter.
AdapterBegin(run, stored) ==
  IF run.runtime = "claude-sdk" THEN
    IF run.op = "stream" THEN ClaudeStreamBegin(run, stored)
    ELSE IF run.op = "resume" THEN ClaudeResumeBegin(run, stored)
    ELSE ClaudeInterruptBegin(run, stored)
  ELSE IF run.runtime = "codex" THEN
    IF run.op = "stream" THEN CodexStreamBegin(run, stored)
    ELSE IF run.op = "resume" THEN CodexResume(run)
    ELSE CodexInterrupt(run)
  ELSE DeepagentsBegin(run)

----------------------------------------------------------------------------
\* The IPC handlers.

\* finally block: window.removeListener('closed', ...) (agent:invoke) and the
\* handler is over.
Finish(run) == [run EXCEPT !.pc = "done", !.listening = FALSE]

\* Mutant for C22: the finally block empties the whole map.
FinallyDeleteAll(act, run, r) == [c \in DOMAIN act |-> 0]

\* finally block: activeRuns.delete(threadId), whichever controller is registered.
FinallyDelete(act, run, r) == [act EXCEPT ![run.conv] = 0]

\* The try body of a handler up to the adapter's first native await.
HandlerTry(run, stored) ==
  IF run.op = "stream" /\ JSONParseThrows(stored) THEN Caught(run, SyntaxError)
  ELSE IF run.op = "stream" /\ ~Truthy(stored.workspacePath) THEN
    [run |-> [run EXCEPT !.forwarded = Append(@, ErrorEvent(MSG_WORKSPACE_REQUIRED))],
     finished |-> TRUE]
  ELSE LET type == getRuntimeType(env, stored, globalDefault) IN
    IF type = Throws THEN Caught(run, SyntaxError)
    ELSE AdapterBegin([run EXCEPT !.runtime = createRuntime(type)], stored)

\* One stretch of run r ended as `res`: store the run, run finally when the
\* generator is over.
Settled(rs, r, res) ==
  [rs EXCEPT ![r] = IF res.finished THEN Finish(res.run) ELSE res.run]

ActiveAfter(act, r, res) ==
  IF res.finished THEN FinallyDelete(act, res.run, r) ELSE act

\* agent:invoke (op = "stream"), agent:resume, agent:interrupt.
Submit(c, op, d) ==
  /\ window = "open"
  /\ LET r == Len(runs) + 1
         stored == meta[c]
         run0 == NewRun(c, op, d)
     IN
     IF op # "stream" /\ JSONParseThrows(stored) THEN
       \* JSON.parse outside any try: the handler's promise rejects
       /\ runs' = Append(runs, [run0 EXCEPT !.escaped = TRUE, !.failed = TRUE])
       /\ UNCHANGED activeRuns
     ELSE IF op # "stream" /\ ~Truthy(stored.workspacePath) THEN
       /\ runs' = Append(runs,
             [run0 EXCEPT !.forwarded = <<ErrorEvent(MSG_WORKSPACE_PATH)>>])
       /\ UNCHANGED activeRuns
     ELSE
       LET existingController == activeRuns[c]
           rs1 == IF existingController # 0
                  THEN [runs EXCEPT ![existingController] = Abort(@, "supersede")]
                  ELSE runs
           run1 == [run0 EXCEPT !.hasCtl = TRUE, !.listening = (op = "stream")]
           res == HandlerTry(run1, stored)
           rs2 == Append(rs1, run1)
       IN /\ runs' = Settled(rs2, r, res)
          /\ activeRuns' = ActiveAfter([activeRuns EXCEPT ![c] = r], r, res)
  /\ UNCHANGED <<meta, env, globalDefault, window, execs, validations, publish>>

\* Mutant for C25: with no controller registered, cancel aborts every Run of
\* the conversation.
CancelEffectAllRuns(c) ==
  LET controller == activeRuns[c] IN
  IF controller # 0
  THEN [runs |-> [runs EXCEPT ![controller] = Abort(@, "cancel")],
        activeRuns |-> [activeRuns EXCEPT ![c] = 0]]
  ELSE [runs |-> [r \in DOMAIN runs |->
                    IF runs[r].conv = c THEN Abort(runs[r], "cancel") ELSE runs[r]],
        activeRuns |-> activeRuns]

\* agent:cancel: the runs and the active-run map after the handler.
CancelEffect(c) ==
  LET controller == activeRuns[c] IN
  IF controller # 0
  THEN [runs |-> [runs EXCEPT ![controller] = Abort(@, "cancel")],
        activeRuns |-> [activeRuns EXCEPT ![c] = 0]]
  ELSE [runs |-> runs, activeRuns |-> activeRuns]

\* A call of agent:cancel that finds a controller (any other call changes nothing).
Cancel(c) ==
  /\ activeRuns[c] # 0
  /\ runs' = CancelEffect(c).runs
  /\ activeRuns' = CancelEffect(c).activeRuns
  /\ UNCHANGED <<meta, env, globalDefault, window, execs, validations, publish>>

\* The window emits 'closed': every registered onWindowClosed aborts its own
\* controller (the active-run map is not touched).
WindowClosed ==
  /\ window = "open"
  /\ window' = "closed"
  /\ runs' = [r \in DOMAIN runs |->
                IF runs[r].listening THEN Abort(runs[r], "window") ELSE runs[r]]
  /\ UNCHANGED <<meta, env, globalDefault, activeRuns, execs, validations, publish>>

----------------------------------------------------------------------------
\* Native awaits settling.  What the native side does (also after an abort) is
\* not decided by this code: every outcome is possible at every await.

NativeIds == {"n1", "n2"}

AwaitPcs == {"create", "open", "gate", "run", "iter"}

\* The decisions list of a resume value, written out: [{type: d1}, {type: d2}].
RECURSIVE DecisionTypes(_)
DecisionTypes(decisions) ==
  IF decisions = <<>> THEN ""
  ELSE IF Len(decisions) = 1 THEN Head(decisions)
  ELSE Head(decisions) \o "," \o DecisionTypes(Tail(decisions))

\* new Command({ resume: { decisions } }) as the input of agent.stream.
Command(decisions) == "Command:" \o DecisionTypes(decisions)

\* Mutant for C31: resume continues from the checkpoint with null, as an
\* approved interrupt does, whatever decision the payload carries.
DeepagentsCreatedResumeNull(run) ==
  IF run.op = "stream" THEN
    [run |-> [run EXCEPT !.calls = Append(@, NativeCall("agent.stream", Undefined, "messages")),
                         !.pc = "open"],
     finished |-> FALSE]
  ELSE IF run.op = "resume" \/ run.decision = "approve" THEN
    [run |-> [run EXCEPT !.calls = Append(@, NativeCall("agent.stream", Undefined, "null")),
                         !.pc = "open"],
     finished |-> FALSE]
  ELSE IF run.decision = "reject" THEN Deliver(run, <<DoneEvent>>, TRUE)
  ELSE Deliver(run, <<>>, TRUE)

\* Mutant for C15: a reject decision continues the graph as approve does.
DeepagentsCreatedRejectStreams(run) ==
  IF run.op = "stream" THEN
    [run |-> [run EXCEPT !.calls = Append(@, NativeCall("agent.stream", Undefined, "messages")),
                         !.pc = "open"],
     finished |-> FALSE]
  ELSE IF run.op = "resume" THEN
    LET decisionType == IF Truthy(run.decision) THEN run.decision ELSE "approve"
        resumeValue == <<decisionType>>
    IN
    [run |-> [run EXCEPT !.calls = Append(@, NativeCall("agent.stream", Undefined,
                                                       Command(resumeValue))),
                         !.pc = "open"],
     finished |-> FALSE]
  ELSE IF run.decision \in {"approve", "reject"} THEN
    [run |-> [run EXCEPT !.calls = Append(@, NativeCall("agent.stream", Undefined, "null")),
                         !.pc = "open"],
     finished |-> FALSE]
  ELSE Deliver(run, <<>>, TRUE)

\* deepagents: createAgentRuntime resolved; agent.stream is called (stream,
\* resume, interrupt/approve), or the generator ends (interrupt/reject, /edit).
DeepagentsCreated(run) ==
  IF run.op = "stream" THEN
    [run |-> [run EXCEPT !.calls = Append(@, NativeCall("agent.stream", Undefined, "messages")),
                         !.pc = "open"],
     finished |-> FALSE]
  ELSE IF run.op = "resume" THEN
    LET decisionType == IF Truthy(run.decision) THEN run.decision ELSE "approve"
        resumeValue == <<decisionType>>
    IN
    [run |-> [run EXCEPT !.calls = Append(@, NativeCall("agent.stream", Undefined,
                                                       Command(resumeValue))),
                         !.pc = "open"],
     finished |-> FALSE]
  ELSE IF run.decision = "approve" THEN
    [run |-> [run EXCEPT !.calls = Append(@, NativeCall("agent.stream", Undefined, "null")),
                         !.pc = "open"],
     finished |-> FALSE]
  ELSE IF run.decision = "reject" THEN Deliver(run, <<DoneEvent>>, TRUE)
  ELSE Deliver(run, <<>>, TRUE)

\* A native await other than the codex gate resolves: createAgentRuntime,
\* agent.stream (deepagents), thread.runStreamed (codex).
NativeResolve(r) ==
  /\ r \in DOMAIN runs
  /\ runs[r].pc \in {"create", "open", "run"}
  /\ LET run == runs[r]
         res == IF run.pc = "create" THEN DeepagentsCreated(run)
                ELSE [run |-> [run EXCEPT !.pc = "iter"], finished |-> FALSE]
     IN /\ runs' = Settled(runs, r, res)
        /\ activeRuns' = ActiveAfter(activeRuns, r, res)
  /\ UNCHANGED <<meta, env, globalDefault, window, execs, validations, publish>>

\* Mutant for C30: a denied turn is not executed.
CodexGateDenyStops(run, allowTools) ==
  LET sandboxMode == IF allowTools THEN "workspace-write" ELSE "read-only"
      call == IF Truthy(run.existing)
              THEN NativeCall("resumeThread", run.existing, sandboxMode)
              ELSE NativeCall("startThread", Undefined, sandboxMode)
  IN IF allowTools
     THEN [run |-> [run EXCEPT !.sandbox = sandboxMode, !.calls = Append(@, call),
                               !.pc = "run"],
           finished |-> FALSE]
     ELSE Deliver([run EXCEPT !.sandbox = sandboxMode], <<>>, TRUE)

\* Mutant for C21: the turn runs under workspace-write whatever the answer.
CodexGateAlwaysWrite(run, allowTools) ==
  LET sandboxMode == "workspace-write"
      call == IF Truthy(run.existing)
              THEN NativeCall("resumeThread", run.existing, sandboxMode)
              ELSE NativeCall("startThread", Undefined, sandboxMode)
  IN [run |-> [run EXCEPT !.sandbox = sandboxMode, !.calls = Append(@, call), !.pc = "run"],
      finished |-> FALSE]

\* Mutant for C8: a fresh thread is started whatever identifier was read.
CodexGateFresh(run, allowTools) ==
  LET sandboxMode == IF allowTools THEN "workspace-write" ELSE "read-only"
  IN [run |-> [run EXCEPT !.sandbox = sandboxMode,
                          !.calls = Append(@, NativeCall("startThread", Undefined, sandboxMode)),
                          !.pc = "run"],
      finished |-> FALSE]

\* codex: the approval dialog returns; the thread is started or resumed and
\* runStreamed is awaited.
CodexGate(run, allowTools) ==
  LET sandboxMode == IF allowTools THEN "workspace-write" ELSE "read-only"
      call == IF Truthy(run.existing)
              THEN NativeCall("resumeThread", run.existing, sandboxMode)
              ELSE NativeCall("startThread", Undefined, sandboxMode)
  IN [run |-> [run EXCEPT !.sandbox = sandboxMode, !.calls = Append(@, call), !.pc = "run"],
      finished |-> FALSE]

GateAnswer(r, allowTools) ==
  /\ r \in DOMAIN runs
  /\ runs[r].pc = "gate"
  /\ LET res == CodexGate(runs[r], allowTools)
     IN /\ runs' = Settled(runs, r, res)
        /\ activeRuns' = ActiveAfter(activeRuns, r, res)
  /\ UNCHANGED <<meta, env, globalDefault, window, execs, validations, publish>>

\* A native await rejects with `error`.  deepagents has no try/catch: the error
\* reaches the handler's catch.  The SDK adapters catch it themselves.
NativeThrow(r, error) ==
  /\ r \in DOMAIN runs
  /\ runs[r].pc \in AwaitPcs
  /\ LET run == runs[r]
         res == IF run.runtime = "claude-sdk" THEN CaughtClaude(run, error)
                ELSE IF run.runtime = "codex" THEN CaughtCodex(run, error)
                ELSE Caught(run, error)
     IN /\ runs' = Settled(runs, r, res)
        /\ activeRuns' = ActiveAfter(activeRuns, r, res)
  /\ UNCHANGED <<meta, env, globalDefault, window, execs, validations, publish>>

\* The native stream ends: `if (!signal.aborted) yield { type: 'done' }`.
StreamEnd(run) ==
  IF run.aborted THEN Deliver(run, <<>>, TRUE) ELSE Deliver(run, <<DoneEvent>>, TRUE)

NativeEnd(r) ==
  /\ r \in DOMAIN runs
  /\ runs[r].pc = "iter"
  /\ LET res == StreamEnd(runs[r])
     IN /\ runs' = Settled(runs, r, res)
        /\ activeRuns' = ActiveAfter(activeRuns, r, res)
  /\ UNCHANGED <<meta, env, globalDefault, window, execs, validations, publish>>

----------------------------------------------------------------------------
\* One iteration of an adapter's `for await` over the native stream.

Item(kind, id) == [kind |-> kind, id |-> id]

\* The native items each adapter reacts to (an assistant message carries one
\* text block, a completed item carries text, an error result carries errors).
NativeItems(runtime) ==
  IF runtime = "claude-sdk" THEN
    {Item("init", id) : id \in NativeIds} \cup {Item("assistant", Undefined),
                                                Item("result_error", Undefined)}
  ELSE IF runtime = "codex" THEN
    {Item("thread.started", id) : id \in NativeIds}
      \cup {Item("item.completed", Undefined), Item("turn.failed", Undefined),
            Item("error", Undefined)}
  ELSE {Item("chunk", Undefined)}

\* `if (signal.aborted) break`, then `if (!signal.aborted) yield done` is skipped.
LoopBreak(run, stored) ==
  Deliver(run, <<>>, TRUE) @@ [stored |-> stored]

DeepagentsChunk(run, item, stored) ==
  IF run.aborted THEN LoopBreak(run, stored)
  ELSE Deliver(run, <<StreamEvent>>, FALSE) @@ [stored |-> stored]

ClaudeMessage(run, item, stored) ==
  IF run.aborted THEN LoopBreak(run, stored)
  ELSE IF item.kind = "init" THEN
    IF run.op = "stream" /\ Truthy(item.id) THEN
      LET saved == saveSessionId(stored, item.id) IN
      IF JSONParseThrows(stored) THEN CaughtClaude(run, SyntaxError) @@ [stored |-> stored]
      ELSE [run |-> [run EXCEPT !.saves = @ + 1], finished |-> FALSE, stored |-> saved]
    ELSE [run |-> run, finished |-> FALSE, stored |-> stored]
  ELSE IF item.kind = "assistant" THEN
    Deliver(run, <<TokenEvent>>, FALSE) @@ [stored |-> stored]
  ELSE Deliver(run, <<ErrorEvent(MSG_RESULT_ERRORS)>>, FALSE) @@ [stored |-> stored]

CodexEvent(run, item, stored) ==
  IF run.aborted THEN LoopBreak(run, stored)
  ELSE IF item.kind = "thread.started" THEN
    IF Truthy(item.id) THEN
      LET saved == saveCodexThreadId(stored, item.id) IN
      IF JSONParseThrows(stored) THEN CaughtCodex(run, SyntaxError) @@ [stored |-> stored]
      ELSE [run |-> [run EXCEPT !.saves = @ + 1], finished |-> FALSE, stored |-> saved]
    ELSE [run |-> run, finished |-> FALSE, stored |-> stored]
  ELSE IF item.kind = "item.completed" THEN
    Deliver(run, <<TokenEvent>>, FALSE) @@ [stored |-> stored]
  ELSE IF item.kind = "turn.failed" THEN
    Deliver(run, <<ErrorEvent(MSG_TURN_FAILED)>>, FALSE) @@ [stored |-> stored]
  ELSE Deliver(run, <<ErrorEvent(MSG_STREAM_ERROR)>>, FALSE) @@ [stored |-> stored]

\* The native stream of run r delivers `item`, at most `limit` items per run.
NativeItemWithin(r, item, limit) ==
  /\ r \in DOMAIN runs
  /\ runs[r].pc = "iter"
  /\ runs[r].items < limit
  /\ item \in NativeItems(runs[r].runtime)
  /\ LET run == [runs[r] EXCEPT !.items = @ + 1]
         stored == meta[run.conv]
         res == IF run.runtime = "claude-sdk" THEN ClaudeMessage(run, item, stored)
                ELSE IF run.runtime = "codex" THEN CodexEvent(run, item, stored)
                ELSE DeepagentsChunk(run, item, stored)
     IN /\ runs' = Settled(runs, r, res)
        /\ activeRuns' = ActiveAfter(activeRuns, r, res)
        /\ meta' = [meta EXCEPT ![run.conv] = res.stored]
  /\ UNCHANGED <<env, globalDefault, window, execs, validations, publish>>

NativeItem(r, item) == NativeItemWithin(r, item, MaxItems)

----------------------------------------------------------------------------
\* The specification.

Conversations == {"c1"}

\* What a conversation's metadata holds when the application starts.
InitialMetadata ==
  {CorruptMetadata, Metadata(Undefined, Undefined, Undefined, Undefined)}
    \cup {Metadata("/ws", rt, Undefined, Undefined) : rt \in {Undefined, "claude-sdk", "codex"}}

\* Inputs of the three submit handlers: <<handler, decision>>.
SubmitInputs ==
  {<<"stream", Undefined>>, <<"resume", Undefined>>, <<"resume", "reject">>,
   <<"interrupt", "approve">>, <<"interrupt", "reject">>, <<"interrupt", "edit">>}

Init ==
  /\ meta \in [Conversations -> InitialMetadata]
  /\ env = Undefined
  /\ globalDefault = "deepagents"
  /\ activeRuns = [c \in Conversations |-> 0]
  /\ runs = <<>>
  /\ window = "open"
  /\ execs = <<>>
  /\ validations = <<>>
  /\ publish = NotStarted

Next ==
  \/ \E c \in DOMAIN meta, inp \in SubmitInputs :
       Len(runs) < MaxRuns /\ Submit(c, inp[1], inp[2])
  \/ \E c \in DOMAIN meta : Cancel(c)
  \/ WindowClosed
  \/ \E r \in DOMAIN runs : NativeResolve(r)
  \/ \E r \in DOMAIN runs, allowTools \in BOOLEAN : GateAnswer(r, allowTools)
  \/ \E r \in DOMAIN runs, error \in NativeErrors : NativeThrow(r, error)
  \/ \E r \in DOMAIN runs : \E item \in NativeItems(runs[r].runtime) : NativeItem(r, item)
  \/ \E r \in DOMAIN runs : NativeEnd(r)

Spec == Init /\ [][Next]_vars

\* Three agent:invoke submits in a row (one more than Spec allows), the native
\* side failing only with abort errors.
NextInvoke ==
  \/ \E c \in DOMAIN meta : Len(runs) < MaxRuns + 1 /\ Submit(c, "stream", Undefined)
  \/ \E c \in DOMAIN meta : Cancel(c)
  \/ \E r \in DOMAIN runs : NativeResolve(r)
  \/ \E r \in DOMAIN runs, allowTools \in BOOLEAN : GateAnswer(r, allowTools)
  \/ \E r \in DOMAIN runs : NativeThrow(r, E_Abort)
  \/ \E r \in DOMAIN runs : \E item \in NativeItems(runs[r].runtime) : NativeItem(r, item)
  \/ \E r \in DOMAIN runs : NativeEnd(r)

SpecInvoke == Init /\ [][NextInvoke]_vars

----------------------------------------------------------------------------
\* Runtime selection on its own: every combination of the three candidate
\* values, one submit per start of the application.

CandidateValues ==
  {Undefined, "", "bogus"} \cup NonStringValues \cup VALID_RUNTIMES

InitResolve ==
  /\ meta \in [Conversations ->
        {CorruptMetadata}
          \cup {Metadata("/ws", rt, Undefined, Undefined) : rt \in CandidateValues}]
  /\ env \in CandidateValues \ NonStringValues
  /\ globalDefault \in CandidateValues
  /\ activeRuns = [c \in Conversations |-> 0]
  /\ runs = <<>>
  /\ window = "open"
  /\ execs = <<>>
  /\ validations = <<>>
  /\ publish = NotStarted

NextResolve ==
  \E c \in DOMAIN meta, inp \in SubmitInputs : runs = <<>> /\ Submit(c, inp[1], inp[2])

SpecResolve == InitResolve /\ [][NextResolve]_vars

----------------------------------------------------------------------------
\* Begin only: agent:invoke submits on the two SDK variants, each superseding
\* the one before, the native side answering without failures.

InitBegin ==
  /\ meta \in [Conversations ->
        {Metadata("/ws", rt, Undefined, Undefined) : rt \in {"claude-sdk", "codex"}}]
  /\ env = Undefined
  /\ globalDefault = "deepagents"
  /\ activeRuns = [c \in Conversations |-> 0]
  /\ runs = <<>>
  /\ window = "open"
  /\ execs = <<>>
  /\ validations = <<>>
  /\ publish = NotStarted

NextBegin ==
  \/ \E c \in DOMAIN meta : Len(runs) < MaxRuns /\ Submit(c, "stream", Undefined)
  \/ \E r \in DOMAIN runs : NativeResolve(r)
  \/ \E r \in DOMAIN runs, allowTools \in BOOLEAN : GateAnswer(r, allowTools)
  \/ \E r \in DOMAIN runs : \E item \in NativeItems(runs[r].runtime) : NativeItem(r, item)
  \/ \E r \in DOMAIN runs : NativeEnd(r)

SpecBegin == InitBegin /\ [][NextBegin]_vars

----------------------------------------------------------------------------
\* An adapter method called directly: any adapter, any method and decision, any
\* stored identifiers, the signal already aborted or not.

AdapterMetadata ==
  {CorruptMetadata}
    \cup {Metadata("/ws", Undefined, cl, cx) :
            cl \in {Undefined} \cup NativeIds, cx \in {Undefined} \cup NativeIds}

\* runtime.stream(...) / runtime.resume(...) / runtime.interrupt(...) is called
\* and runs to its first native await or to its end.
AdapterCall(r) ==
  /\ r \in DOMAIN runs
  /\ runs[r].pc = "call"
  /\ LET res == AdapterBegin(runs[r], meta[runs[r].conv])
     IN runs' = [runs EXCEPT ![r] = IF res.finished THEN Finish(res.run) ELSE res.run]
  /\ UNCHANGED <<meta, env, globalDefault, activeRuns, window, execs, validations, publish>>

InitAdapter ==
  /\ meta \in [Conversations -> AdapterMetadata]
  /\ env = Undefined
  /\ globalDefault = "deepagents"
  /\ activeRuns = [c \in Conversations |-> 0]
  /\ \E c \in Conversations, inp \in SubmitInputs, rt \in VALID_RUNTIMES, ab \in BOOLEAN :
       runs = <<[NewRun(c, inp[1], inp[2]) EXCEPT
                   !.runtime = createRuntime(rt), !.hasCtl = TRUE,
                   !.aborted = ab, !.pc = "call"]>>
  /\ window = "open"
  /\ execs = <<>>
  /\ validations = <<>>
  /\ publish = NotStarted

NextAdapter == \E r \in DOMAIN runs : AdapterCall(r)

SpecAdapter == InitAdapter /\ [][NextAdapter]_vars

----------------------------------------------------------------------------
\* An adapter method called directly and driven to its end: the call of
\* SpecAdapter, then the native side answering, failing or streaming, the
\* consumer iterating the generator as the IPC handlers do.

NextAdapterRun ==
  \/ \E r \in DOMAIN runs : AdapterCall(r)
  \/ \E r \in DOMAIN runs : NativeResolve(r)
  \/ \E r \in DOMAIN runs, allowTools \in BOOLEAN : GateAnswer(r, allowTools)
  \/ \E r \in DOMAIN runs, error \in NativeErrors : NativeThrow(r, error)
  \/ \E r \in DOMAIN runs : \E item \in NativeItems(runs[r].runtime) : NativeItem(r, item)
  \/ \E r \in DOMAIN runs : NativeEnd(r)

SpecAdapterRun == InitAdapter /\ [][NextAdapterRun]_vars

----------------------------------------------------------------------------
\* The runtime settings changing between submits.

\* agentRuntime:set (threadId, runtimeOrNull): null clears the conversation's
\* override, a valid runtime sets it; the other metadata keys are kept.
SetRuntime(c, runtimeOrNull) ==
  /\ ~JSONParseThrows(meta[c])
  /\ runtimeOrNull \in {Undefined} \cup VALID_RUNTIMES
  /\ meta[c].agentRuntime # runtimeOrNull
  /\ meta' = [meta EXCEPT ![c].agentRuntime = runtimeOrNull]
  /\ UNCHANGED <<env, globalDefault, activeRuns, runs, window, execs, validations, publish>>

\* agentRuntime:setDefault (runtime): sets the defaultAgentRuntime setting.
SetDefault(runtime) ==
  /\ runtime \in VALID_RUNTIMES
  /\ globalDefault # runtime
  /\ globalDefault' = runtime
  /\ UNCHANGED <<meta, env, activeRuns, runs, window, execs, validations, publish>>

InitSwitch ==
  /\ meta \in [Conversations -> {Metadata("/ws", Undefined, Undefined, Undefined)}]
  /\ env = Undefined
  /\ globalDefault = "deepagents"
  /\ activeRuns = [c \in Conversations |-> 0]
  /\ runs = <<>>
  /\ window = "open"
  /\ execs = <<>>
  /\ validations = <<>>
  /\ publish = NotStarted

NextSwitch ==
  \/ \E c \in DOMAIN meta, inp \in SubmitInputs :
       Len(runs) < MaxRuns /\ Submit(c, inp[1], inp[2])
  \/ \E c \in DOMAIN meta, rt \in {Undefined} \cup VALID_RUNTIMES : SetRuntime(c, rt)
  \/ \E rt \in VALID_RUNTIMES : SetDefault(rt)
  \/ \E r \in DOMAIN runs : NativeResolve(r)
  \/ \E r \in DOMAIN runs, allowTools \in BOOLEAN : GateAnswer(r, allowTools)
  \/ \E r \in DOMAIN runs : \E item \in NativeItems(runs[r].runtime) : NativeItem(r, item)
  \/ \E r \in DOMAIN runs : NativeEnd(r)

SpecSwitch == InitSwitch /\ [][NextSwitch]_vars

\* Submits and setting changes only (no native progress).
NextFresh ==
  \/ \E c \in DOMAIN meta, inp \in SubmitInputs :
       Len(runs) < MaxRuns /\ Submit(c, inp[1], inp[2])
  \/ \E c \in DOMAIN meta, rt \in {Undefined} \cup VALID_RUNTIMES : SetRuntime(c, rt)
  \/ \E rt \in VALID_RUNTIMES : SetDefault(rt)

SpecFresh == InitSwitch /\ [][NextFresh]_vars

----------------------------------------------------------------------------
\* The conversation's working directory changing between submits.

\* The persistence collaborator updates the conversation's metadata: the
\* workspace path is set or removed; the other metadata keys are kept.
SetWorkspace(c, pathOrNull) ==
  /\ ~JSONParseThrows(meta[c])
  /\ pathOrNull \in {Undefined, "/ws"}
  /\ meta[c].workspacePath # pathOrNull
  /\ meta' = [meta EXCEPT ![c].workspacePath = pathOrNull]
  /\ UNCHANGED <<env, globalDefault, activeRuns, runs, window, execs, validations, publish>>

NextWorkspace ==
  \/ \E c \in DOMAIN meta, inp \in SubmitInputs :
       Len(runs) < MaxRuns /\ Submit(c, inp[1], inp[2])
  \/ \E c \in DOMAIN meta, path \in {Undefined, "/ws"} : SetWorkspace(c, path)
  \/ \E r \in DOMAIN runs : NativeResolve(r)
  \/ \E r \in DOMAIN runs : \E item \in NativeItems(runs[r].runtime) : NativeItem(r, item)
  \/ \E r \in DOMAIN runs : NativeEnd(r)

SpecWorkspace == InitSwitch /\ [][NextWorkspace]_vars

----------------------------------------------------------------------------
\* One adapter call whose native stream delivers one item more than MaxItems.

NextTurn ==
  \/ \E r \in DOMAIN runs : AdapterCall(r)
  \/ \E r \in DOMAIN runs : NativeResolve(r)
  \/ \E r \in DOMAIN runs, allowTools \in BOOLEAN : GateAnswer(r, allowTools)
  \/ \E r \in DOMAIN runs : \E item \in NativeItems(runs[r].runtime) :
       NativeItemWithin(r, item, MaxItems + 1)
  \/ \E r \in DOMAIN runs : NativeEnd(r)

SpecTurn == InitAdapter /\ [][NextTurn]_vars

----------------------------------------------------------------------------
\* Two conversations side by side, both on the default runtime: submits and
\* cancels on either, the native side answering, streaming, ending or failing.

TwoConversations == {"c1", "c2"}

InitTwo ==
  /\ meta = [c \in TwoConversations |-> Metadata("/ws", Undefined, Undefined, Undefined)]
  /\ env = Undefined
  /\ globalDefault = "deepagents"
  /\ activeRuns = [c \in TwoConversations |-> 0]
  /\ runs = <<>>
  /\ window = "open"
  /\ execs = <<>>
  /\ validations = <<>>
  /\ publish = NotStarted

NextTwo ==
  \/ \E c \in DOMAIN meta, inp \in {<<"stream", Undefined>>, <<"interrupt", "reject">>} :
       Len(runs) < MaxRuns /\ Submit(c, inp[1], inp[2])
  \/ \E c \in DOMAIN meta : Cancel(c)
  \/ \E r \in DOMAIN runs : NativeResolve(r)
  \/ \E r \in DOMAIN runs : NativeThrow(r, E_Boom)
  \/ \E r \in DOMAIN runs : \E item \in NativeItems(runs[r].runtime) : NativeItem(r, item)
  \/ \E r \in DOMAIN runs : NativeEnd(r)

SpecTwo == InitTwo /\ [][NextTwo]_vars

----------------------------------------------------------------------------
\* execFileNoThrow (src/main/utils/execFileNoThrow.ts).

\* A JavaScript value as the error's .code: its typeof, whether
\* Number.isInteger holds of it, and its number or string.
CodeNumber(n) == [type |-> "number", integer |-> TRUE, num |-> n, str |-> ""]
CodeFraction == [type |-> "number", integer |-> FALSE, num |-> 0, str |-> "1.5"]
CodeString(str) == [type |-> "string", integer |-> FALSE, num |-> 0, str |-> str]
CodeNull == [type |-> "object", integer |-> FALSE, num |-> 0, str |-> "null"]
CodeUndefined == [type |-> "undefined", integer |-> FALSE, num |-> 0, str |-> ""]

\* What execFileAsync settles with: it resolves with the captured output, or
\* rejects with an Error that may carry stdout, stderr and code.
Resolved(stdout, stderr) ==
  [resolved |-> TRUE, stdout |-> stdout, stderr |-> stderr, code |-> CodeUndefined]

Rejected(stdout, stderr, code) ==
  [resolved |-> FALSE, stdout |-> stdout, stderr |-> stderr, code |-> code]

ExecResult(stdout, stderr, status) ==
  [stdout |-> stdout, stderr |-> stderr, status |-> status]

\* Mutant for C26: the error's code is returned as it is.
execFileNoThrowRawCode(outcome) ==
  IF outcome.resolved THEN ExecResult(outcome.stdout, outcome.stderr, CodeNumber(0))
  ELSE
    LET e == outcome
        status == e.code
    IN ExecResult(IF e.stdout = Undefined THEN "" ELSE e.stdout,
                  IF e.stderr = Undefined THEN "" ELSE e.stderr,
                  status)

\* execFileNoThrow, given what execFileAsync settled with.
execFileNoThrow(outcome) ==
  IF outcome.resolved THEN ExecResult(outcome.stdout, outcome.stderr, CodeNumber(0))
  ELSE
    LET e == outcome
        code == e.code
        status == IF code.type = "number" /\ code.integer THEN code ELSE CodeNumber(1)
    IN ExecResult(IF e.stdout = Undefined THEN "" ELSE e.stdout,
                  IF e.stderr = Undefined THEN "" ELSE e.stderr,
                  status)

\* The codes an execFile error carries: an exit code, a system error name, null
\* (killed by a signal), none, or a number that is not an integer.
ErrorCodes ==
  {CodeNumber(n) : n \in {0, 1, 2, 127}}
    \cup {CodeString("ENOENT"), CodeString("ERR_CHILD_PROCESS_STDIO_MAXBUFFER"),
          CodeNull, CodeUndefined, CodeFraction}

ExecOutcomes ==
  {Resolved(out, err) : out \in {"", "out"}, err \in {"", "err"}}
    \cup {Rejected(out, err, code) :
            out \in {Undefined, "", "out"}, err \in {Undefined, "", "err"},
            code \in ErrorCodes}

\* One call of execFileNoThrow: the child settles as `outcome`.
ExecFile(outcome) ==
  /\ Len(execs) < MaxExecs
  /\ execs' = Append(execs, [outcome |-> outcome, result |-> execFileNoThrow(outcome)])
  /\ UNCHANGED <<meta, env, globalDefault, activeRuns, runs, window, validations, publish>>

NextExec == \E outcome \in ExecOutcomes : ExecFile(outcome)

SpecExec == InitSwitch /\ [][NextExec]_vars

----------------------------------------------------------------------------
\* Backpressure validators (src/main/backpressure/validators).

MaxValidations == 1

\* A BackpressureError; an absent key is Undefined (NoNumber for line, column).
NoNumber == 0

BackpressureError(source, severity, file, line, column, message, code, suggestion, raw) ==
  [source |-> source, severity |-> severity, file |-> file, line |-> line,
   column |-> column, message |-> message, code |-> code,
   suggestion |-> suggestion, raw |-> raw]

\* A ValidatorResult (duration, a reading of the clock, is left out).
ValidatorResult(passed, errors) == [passed |-> passed, errors |-> errors]

\* Texts a child process writes.  Each is a whole number of lines; Body is the
\* text without its final newline.
ChildTexts ==
  [tscLocated |-> "src/a.ts(10,5): error TS2345: bad\n",
   tscBare |-> "error TS6053: File not found\n",
   npxNoise |-> "npm error could not determine executable to run\n",
   eslintCrash |-> "Oops! Something went wrong! :(\n"]

Body(text) ==
  CASE text = "" -> ""
    [] text = ChildTexts.tscLocated -> "src/a.ts(10,5): error TS2345: bad"
    [] text = ChildTexts.tscBare -> "error TS6053: File not found"
    [] text = ChildTexts.npxNoise -> "npm error could not determine executable to run"
    [] text = ChildTexts.eslintCrash -> "Oops! Something went wrong! :("
    [] OTHER -> text

\* (stdout + stderr).trim(): the two texts, the newline at the end removed.
Trim(stdout, stderr) ==
  IF stderr = "" THEN Body(stdout) ELSE stdout \o Body(stderr)

\* The lines of stdout + stderr.
OutputLines(stdout, stderr) ==
  (IF stdout = "" THEN <<>> ELSE <<Body(stdout)>>)
    \o (IF stderr = "" THEN <<>> ELSE <<Body(stderr)>>)

\* What the two regular expressions of parseTscOutput capture in a line.
NoMatch == [matched |-> FALSE, file |-> Undefined, line |-> NoNumber, column |-> NoNumber,
            severity |-> Undefined, code |-> Undefined, message |-> Undefined]

withLocation(raw) ==
  IF raw = "src/a.ts(10,5): error TS2345: bad"
  THEN [matched |-> TRUE, file |-> "src/a.ts", line |-> 10, column |-> 5,
        severity |-> "error", code |-> "TS2345", message |-> "bad"]
  ELSE NoMatch

noLocation(raw) ==
  IF raw = "error TS6053: File not found"
  THEN [matched |-> TRUE, file |-> Undefined, line |-> NoNumber, column |-> NoNumber,
        severity |-> "error", code |-> "TS6053", message |-> "File not found"]
  ELSE NoMatch

RECURSIVE MatchesOf(_, _, _)
\* The errors pushed by one `while ((match = re.exec(output)) !== null)` loop.
MatchesOf(lines, located, workspacePath) ==
  IF lines = <<>> THEN <<>>
  ELSE LET raw == Head(lines)
           m == IF located THEN withLocation(raw) ELSE noLocation(raw)
           rest == MatchesOf(Tail(lines), located, workspacePath)
       IN IF ~m.matched THEN rest
          ELSE <<BackpressureError("typecheck", m.severity,
                    IF located THEN workspacePath \o "/" \o m.file ELSE Undefined,
                    m.line, m.column, m.message, m.code, Undefined, raw)>> \o rest

\* TypeCheckValidator.parseTscOutput: the located errors, then the others.
parseTscOutput(stdout, stderr, workspacePath) ==
  LET lines == OutputLines(stdout, stderr)
  IN MatchesOf(lines, TRUE, workspacePath) \o MatchesOf(lines, FALSE, workspacePath)

TsConfigNames == {"tsconfig.node.json", "tsconfig.web.json", "tsconfig.json"}

\* TypeCheckValidator.detectTsConfigs, given the files fs.access finds.
detectTsConfigs(exists) ==
  LET candidates == <<"tsconfig.node.json", "tsconfig.web.json">>
      found == SelectSeq(candidates, LAMBDA name : name \in exists)
  IN IF Len(found) > 0 THEN found
     ELSE IF "tsconfig.json" \in exists THEN <<"tsconfig.json">>
     ELSE <<>>

\* One iteration of validate's loop: the tsc run for configFile settled as
\* `outcome`.
TscRun(configFile, outcome, workspacePath) ==
  LET args == <<"tsc", "--noEmit", "-p", configFile, "--pretty", "false",
                "--composite", "false">>
      res == execFileNoThrow(outcome)
      errors == parseTscOutput(res.stdout, res.stderr, workspacePath)
      output == Trim(res.stdout, res.stderr)
      generic == BackpressureError("typecheck", "error", Undefined, NoNumber, NoNumber,
                   "TypeScript check failed for " \o configFile, Undefined, Undefined,
                   IF output # "" THEN output
                   ELSE "tsc exited with code " \o ToString(res.status.num))
  IN [args |-> args, result |-> res,
      failed |-> res.status # CodeNumber(0),
      errors |-> IF res.status # CodeNumber(0) /\ Len(errors) = 0 THEN <<generic>>
                 ELSE errors]

RECURSIVE TscRuns(_, _, _)
TscRuns(configs, outcomes, workspacePath) ==
  IF configs = <<>> THEN <<>>
  ELSE <<TscRun(Head(configs), Head(outcomes), workspacePath)>>
         \o TscRuns(Tail(configs), Tail(outcomes), workspacePath)

RECURSIVE AllErrors(_)
AllErrors(tscRuns) ==
  IF tscRuns = <<>> THEN <<>> ELSE Head(tscRuns).errors \o AllErrors(Tail(tscRuns))

\* What a tsc run settles with.
TscOutcomes ==
  {Resolved("", ""),
   Rejected(ChildTexts.tscLocated, "", CodeNumber(2)),
   Rejected(ChildTexts.tscBare, "", CodeNumber(2)),
   Rejected("", ChildTexts.npxNoise, CodeNumber(1)),
   Rejected(Undefined, Undefined, CodeString("ENOENT"))}

\* TypeCheckValidator.validate: `exists` are the tsconfig files of the
\* workspace, outcomes[i] what the i-th tsc run settles with.
TypeCheckValidate(exists, outcomes) ==
  /\ Len(validations) < MaxValidations
  /\ LET configs == detectTsConfigs(exists)
         tscRuns == TscRuns(configs, outcomes, "/ws")
         anyFailed == \E i \in DOMAIN tscRuns : tscRuns[i].failed
     IN validations' = Append(validations,
          [validator |-> "typecheck", input |-> exists,
           invocations |-> [i \in DOMAIN tscRuns |-> tscRuns[i].args],
           results |-> [i \in DOMAIN tscRuns |-> tscRuns[i].result],
           result |-> ValidatorResult(~anyFailed, AllErrors(tscRuns))])
  /\ UNCHANGED <<meta, env, globalDefault, activeRuns, runs, window, execs, publish>>

\* The changed files handed to a validator: absolute path and what
\* path.relative(workspacePath, path) returns for it.
ChangedFile(file, relative) == [file |-> file, relative |-> relative]

ChangedFiles ==
  [source |-> ChangedFile("/ws/src/a.ts", "src/a.ts"),
   component |-> ChangedFile("/ws/src/App.jsx", "src/App.jsx"),
   readme |-> ChangedFile("/ws/README.md", "README.md"),
   outside |-> ChangedFile("/other/b.ts", "../other/b.ts")]

startsWithDotDot(relative) == relative = "../other/b.ts"

endsWith(filePath, ext) ==
  \/ filePath = "src/a.ts" /\ ext = ".ts"
  \/ filePath = "../other/b.ts" /\ ext = ".ts"
  \/ filePath = "src/App.jsx" /\ ext = ".jsx"
  \/ filePath = "README.md" /\ ext = ".md"

\* LintValidator.patterns, each `**/*.ext` reduced to its `.ext` as
\* matchesPattern does.
LintPatternExts == {".ts", ".tsx", ".js", ".jsx"}

matchesAnyPattern(relative) == \E ext \in LintPatternExts : endsWith(relative, ext)

\* The filter of LintValidator.validate (relative paths are never absolute here).
relevantFiles(changedFiles) ==
  SelectSeq(changedFiles,
            LAMBDA f : ~startsWithDotDot(f.relative) /\ matchesAnyPattern(f.relative))

\* ESLint's JSON report: per file, its messages.
ESLintMessage(ruleId, severity, message, line, column, fix) ==
  [ruleId |-> ruleId, severity |-> severity, message |-> message,
   line |-> line, column |-> column, fix |-> fix]

ESLintFileResult(filePath, messages) == [filePath |-> filePath, messages |-> messages]

\* The messages the reports hold (a fatal parsing error has ruleId null).
ESLintMessages ==
  [warning |-> ESLintMessage("no-console", 1, "Unexpected console", 3, 1, FALSE),
   error |-> ESLintMessage("no-undef", 2, "x is not defined", 7, 9, FALSE),
   fixable |-> ESLintMessage("semi", 1, "Missing semicolon", 4, 2, TRUE),
   fatal |-> ESLintMessage("null", 2, "Parsing error", 1, 1, FALSE)]

\* Texts ESLint writes on stdout with --format json, by the report they hold.
ESLintTexts ==
  [none |-> "[]",
   clean |-> "[{a.ts:[]}]",
   warning |-> "[{a.ts:[no-console]}]",
   error |-> "[{a.ts:[no-undef]}]",
   mixed |-> "[{a.ts:[semi,no-undef]},{App.jsx:[fatal]}]",
   truncated |-> "[{a.ts:[no-un"]

\* JSON.parse of a text: the report, or ok = FALSE when it throws.
JSONParse(text) ==
  CASE text = ESLintTexts.none -> [ok |-> TRUE, value |-> <<>>]
    [] text = ESLintTexts.clean -> [ok |-> TRUE, value |-> <<ESLintFileResult("/ws/src/a.ts", <<>>)>>]
    [] text = ESLintTexts.warning ->
         [ok |-> TRUE, value |-> <<ESLintFileResult("/ws/src/a.ts", <<ESLintMessages.warning>>)>>]
    [] text = ESLintTexts.error ->
         [ok |-> TRUE, value |-> <<ESLintFileResult("/ws/src/a.ts", <<ESLintMessages.error>>)>>]
    [] text = ESLintTexts.mixed ->
         [ok |-> TRUE,
          value |-> <<ESLintFileResult("/ws/src/a.ts", <<ESLintMessages.fixable, ESLintMessages.error>>),
                      ESLintFileResult("/ws/src/App.jsx", <<ESLintMessages.fatal>>)>>]
    [] OTHER -> [ok |-> FALSE, value |-> <<>>]

RECURSIVE MessageErrors(_, _)
MessageErrors(filePath, messages) ==
  IF messages = <<>> THEN <<>>
  ELSE LET msg == Head(messages) IN
       <<BackpressureError("lint", IF msg.severity = 2 THEN "error" ELSE "warning",
            filePath, msg.line, msg.column, msg.message,
            IF msg.ruleId = "null" THEN Undefined ELSE msg.ruleId,
            IF msg.fix THEN "Auto-fixable with --fix" ELSE Undefined,
            Undefined)>> \o MessageErrors(filePath, Tail(messages))

RECURSIVE StructuredErrors(_)
StructuredErrors(eslintOutput) ==
  IF eslintOutput = <<>> THEN <<>>
  ELSE MessageErrors(Head(eslintOutput).filePath, Head(eslintOutput).messages)
         \o StructuredErrors(Tail(eslintOutput))

LintRaw(stdout, stderr, status) ==
  LET output == Trim(stdout, stderr)
  IN IF output # "" THEN output ELSE "eslint exited with code " \o ToString(status.num)

\* Mutant for C38: no generic error when ESLint fails without messages.
parseOutputStructuredOnly(stdout, stderr, status) ==
  LET parsed == JSONParse(IF stdout # "" THEN stdout ELSE "[]")
  IN IF ~parsed.ok THEN <<>> ELSE StructuredErrors(parsed.value)

\* LintValidator.parseOutput.
parseOutput(stdout, stderr, status) ==
  LET parsed == JSONParse(IF stdout # "" THEN stdout ELSE "[]")
  IN IF ~parsed.ok THEN
       IF status # CodeNumber(0)
       THEN <<BackpressureError("lint", "error", Undefined, NoNumber, NoNumber,
                "ESLint failed to produce parseable output", Undefined, Undefined,
                LintRaw(stdout, stderr, status))>>
       ELSE <<>>
     ELSE
       LET errors == StructuredErrors(parsed.value)
       IN IF status # CodeNumber(0) /\ Len(errors) = 0
          THEN <<BackpressureError("lint", "error", Undefined, NoNumber, NoNumber,
                   "ESLint check failed", Undefined, Undefined,
                   LintRaw(stdout, stderr, status))>>
          ELSE errors

\* What an eslint run settles with.
ESLintOutcomes ==
  {Resolved(out, "") : out \in {ESLintTexts.none, ESLintTexts.clean, ESLintTexts.warning}}
    \cup {Rejected(out, err, CodeNumber(1)) :
            out \in {ESLintTexts.warning, ESLintTexts.error, ESLintTexts.mixed, ESLintTexts.truncated}, err \in {"", ChildTexts.npxNoise}}
    \cup {Rejected(out, err, CodeNumber(2)) :
            out \in {"", ESLintTexts.none, ESLintTexts.clean}, err \in {"", ChildTexts.eslintCrash}}
    \cup {Rejected(Undefined, Undefined, CodeString("ENOENT")),
          Rejected(ESLintTexts.truncated, "", CodeString("ERR_CHILD_PROCESS_STDIO_MAXBUFFER"))}

LintInputs ==
  {<<>>, <<ChangedFiles.readme>>, <<ChangedFiles.outside>>, <<ChangedFiles.source>>, <<ChangedFiles.source, ChangedFiles.readme>>,
   <<ChangedFiles.outside, ChangedFiles.component>>, <<ChangedFiles.source, ChangedFiles.component>>}

\* LintValidator.validate: `outcome` is what the eslint run settles with (when
\* there is one).
LintValidate(changedFiles, outcome) ==
  /\ Len(validations) < MaxValidations
  /\ LET relevant == relevantFiles(changedFiles)
         args == <<"eslint", "--format", "json", "--">>
                   \o [i \in DOMAIN relevant |-> relevant[i].file]
         res == execFileNoThrow(outcome)
         errors == parseOutput(res.stdout, res.stderr, res.status)
         hasErrors == \E i \in DOMAIN errors : errors[i].severity = "error"
     IN validations' = Append(validations,
          IF Len(relevant) = 0
          THEN [validator |-> "lint", input |-> changedFiles, invocations |-> <<>>,
                results |-> <<>>, result |-> ValidatorResult(TRUE, <<>>)]
          ELSE [validator |-> "lint", input |-> changedFiles, invocations |-> <<args>>,
                results |-> <<res>>,
                result |-> ValidatorResult(res.status = CodeNumber(0) \/ ~hasErrors, errors)])
  /\ UNCHANGED <<meta, env, globalDefault, activeRuns, runs, window, execs, publish>>

NextValidate ==
  \/ \E exists \in SUBSET TsConfigNames :
       \E outcomes \in [1..Len(detectTsConfigs(exists)) -> TscOutcomes] :
         TypeCheckValidate(exists, outcomes)
  \/ \E changedFiles \in LintInputs, outcome \in ESLintOutcomes :
       LintValidate(changedFiles, outcome)

SpecValidate == InitSwitch /\ [][NextValidate]_vars

----------------------------------------------------------------------------
\* scripts/publish-npm.js.

\* platformsConfig.platforms, in the order Object.entries gives them.
\* (id: the platform id, key: npm.key, appBundle: electronBuilder.appBundle is set)
Platforms ==
  <<[id |-> "darwin-arm64", key |-> "darwin-arm64", appBundle |-> TRUE],
    [id |-> "linux-x64", key |-> "linux-x64", appBundle |-> FALSE],
    [id |-> "win32-x64", key |-> "win32-x64", appBundle |-> FALSE]>>

\* What `npm publish` under execSync does: it returns, or throws an error
\* carrying the child's stderr and stdout.
NpmTexts ==
  [conflict |-> "npm error 403 You cannot publish over the previously published versions",
   auth |-> "npm error code E401"]

NpmReturned == [threw |-> FALSE, stderr |-> "", stdout |-> ""]
NpmThrew(stderr, stdout) == [threw |-> TRUE, stderr |-> stderr, stdout |-> stdout]

NpmOutcomes ==
  {NpmReturned, NpmThrew(NpmTexts.conflict, ""), NpmThrew("", NpmTexts.conflict),
   NpmThrew(NpmTexts.auth, ""), NpmThrew("", "")}

\* /previously published|cannot publish over|already exists|EPUBLISHCONFLICT/i
ConflictPattern(output) == output = NpmTexts.conflict

PublishResult(success, skipped, error) ==
  [success |-> success, skipped |-> skipped, error |-> error]

\* publishPackage: `token` tells whether NODE_AUTH_TOKEN or NPM_TOKEN is set.
publishPackage(token, npm) ==
  IF ~token
  THEN PublishResult(FALSE, FALSE, "NPM_TOKEN or NODE_AUTH_TOKEN environment variable not set")
  ELSE IF ~npm.threw THEN PublishResult(TRUE, FALSE, Undefined)
  ELSE LET output == IF npm.stderr # "" THEN npm.stderr
                     ELSE IF npm.stdout # "" THEN npm.stdout ELSE ""
       IN IF ConflictPattern(output) THEN PublishResult(TRUE, TRUE, Undefined)
          ELSE PublishResult(FALSE, FALSE, output)

\* readPackageJson: the package, null, or an exception.
readPackageJson(file) ==
  IF file = "missing" THEN "null"
  ELSE IF file \in {"empty", "corrupt"} THEN Throws
  ELSE "pkg"

\* What a package directory and the release directory hold when a package is
\* published, and what npm does.
PackageEnv(releaseDir, packageJson, payload, npm) ==
  [releaseDir |-> releaseDir, packageJson |-> packageJson, payload |-> payload, npm |-> npm]

\* One publish attempt: what became of the package, and whether npm publish ran.
Attempt(pkg, outcome, npmRan) == [pkg |-> pkg, outcome |-> outcome, npmRan |-> npmRan]

\* The end of publishPlatformPackage and publishMainPackage: publishPackage
\* and the value returned.
PublishAndReport(pkg, token, npm) ==
  LET result == publishPackage(token, npm)
  IN IF result.success
     THEN Attempt(pkg, IF result.skipped THEN "skipped" ELSE "published", token)
     ELSE Attempt(pkg, "failed", token)

\* publishPlatformPackage: outcome "failed" is `return false`, "threw" an
\* exception leaving the function.
publishPlatformPackage(platform, penv, token) ==
  LET pkg == "@langchain/openwork-" \o platform.key
      isMacOS == platform.id \in {"darwin-arm64", "darwin-x64"}
      json == readPackageJson(penv.packageJson)
  IN IF ~penv.releaseDir THEN Attempt(pkg, "failed", FALSE)
     ELSE IF json = Throws THEN Attempt(pkg, "threw", FALSE)
     ELSE IF json = "null" THEN Attempt(pkg, "failed", FALSE)
     ELSE IF platform.appBundle THEN
       \* tar (macOS) or copyDir of the app bundle
       IF penv.payload = "missing" THEN Attempt(pkg, "failed", FALSE)
       ELSE IF penv.payload = "fails" THEN Attempt(pkg, "threw", FALSE)
       ELSE PublishAndReport(pkg, token, penv.npm)
     ELSE
       \* copyDir of the unpacked directory, then the binary is checked
       IF penv.payload = "fails" THEN Attempt(pkg, "threw", FALSE)
       ELSE IF penv.payload \in {"missing", "empty"} THEN Attempt(pkg, "failed", FALSE)
       ELSE PublishAndReport(pkg, token, penv.npm)

\* publishMainPackage.
publishMainPackage(menv, token) ==
  LET json == readPackageJson(menv.packageJson)
  IN IF json = Throws THEN Attempt("openwork", "threw", FALSE)
     ELSE IF json = "null" THEN Attempt("openwork", "failed", FALSE)
     ELSE PublishAndReport("openwork", token, menv.npm)

\* process.exit(code), or main returning (code 0).
Exit(p, code) == [p EXCEPT !.pc = "exited", !.exit = code]

\* main up to the first platform: the version argument, then
\* updateRootPackageVersion.
PublishStart(version, token, rootPackageJson) ==
  /\ publish.pc = "start"
  /\ publish' =
       IF ~Truthy(version) THEN Exit(publish, 1)
       ELSE IF readPackageJson(rootPackageJson) = Throws THEN Exit(publish, 1)
       ELSE [publish EXCEPT !.pc = "platforms", !.token = token]
  /\ UNCHANGED <<meta, env, globalDefault, activeRuns, runs, window, execs, validations>>

\* One iteration of main's loop over the platforms and, after the last one,
\* the allSucceeded check.
PublishPlatform(penv) ==
  /\ publish.pc = "platforms"
  /\ LET attempt == publishPlatformPackage(Platforms[publish.i], penv, publish.token)
         succeeded == attempt.outcome \in {"published", "skipped"}
         p1 == [publish EXCEPT !.attempts = Append(@, attempt),
                               !.allSucceeded = @ /\ succeeded,
                               !.i = @ + 1]
     IN publish' =
          IF attempt.outcome = "threw" THEN Exit(p1, 1)
          ELSE IF p1.i <= Len(Platforms) THEN p1
          ELSE IF ~p1.allSucceeded THEN Exit(p1, 1)
          ELSE [p1 EXCEPT !.pc = "main"]
  /\ UNCHANGED <<meta, env, globalDefault, activeRuns, runs, window, execs, validations>>

\* The main package is published and main ends.
PublishMain(menv) ==
  /\ publish.pc = "main"
  /\ LET attempt == publishMainPackage(menv, publish.token)
         p1 == [publish EXCEPT !.attempts = Append(@, attempt)]
     IN publish' = IF attempt.outcome \in {"published", "skipped"}
                   THEN Exit(p1, 0) ELSE Exit(p1, 1)
  /\ UNCHANGED <<meta, env, globalDefault, activeRuns, runs, window, execs, validations>>

\* The environments a platform package is published in.
PlatformEnvs(platform) ==
  {PackageEnv(TRUE, "ok", "ok", npm) : npm \in NpmOutcomes}
    \cup {PackageEnv(FALSE, "ok", "ok", NpmReturned)}
    \cup {PackageEnv(TRUE, file, "ok", NpmReturned) : file \in {"missing", "empty", "corrupt"}}
    \cup {PackageEnv(TRUE, "ok", payload, NpmReturned) :
            payload \in IF platform.appBundle THEN {"missing", "fails"}
                        ELSE {"missing", "empty", "fails"}}

MainEnvs ==
  {PackageEnv(TRUE, "ok", "ok", npm) : npm \in NpmOutcomes}
    \cup {PackageEnv(TRUE, file, "ok", NpmReturned) : file \in {"missing", "corrupt"}}

NextPublish ==
  \/ \E version \in {Undefined, "0.1.0"}, token \in BOOLEAN,
        rootPackageJson \in {"ok", "missing", "corrupt"} :
       PublishStart(version, token, rootPackageJson)
  \/ \E penv \in PlatformEnvs(Platforms[IF publish.i <= Len(Platforms) THEN publish.i ELSE 1]) :
       PublishPlatform(penv)
  \/ \E menv \in MainEnvs : PublishMain(menv)

SpecPublish == InitSwitch /\ [][NextPublish]_vars

----------------------------------------------------------------------------
\* Properties.

HasTerminal(evs) == \E i \in DOMAIN evs : Terminal(evs[i])

\* A Run is non-terminal: its token is untriggered and its stream has not ended.
Live(r) == runs[r].hasCtl /\ ~runs[r].aborted /\ runs[r].pc # "done"

LiveRuns(c) == {r \in DOMAIN runs : runs[r].conv = c /\ Live(r)}

\* C1: at most one Run of a conversation is non-terminal (untriggered token,
\* event stream not ended) at any instant.
C1_SingleActiveRun ==
  \A c \in DOMAIN meta : Cardinality(LiveRuns(c)) <= 1

\* A newer Run of the same conversation exists.
Superseded(r) ==
  \E r2 \in DOMAIN runs : r2 > r /\ runs[r2].conv = runs[r].conv /\ runs[r2].hasCtl

\* C2: once a newer Run of the conversation has been created, an earlier Run
\* has no further event (terminal or not) forwarded to the consumer.
C2_SupersededRunSilent ==
  [][\A r \in DOMAIN runs :
       Superseded(r) => runs'[r].forwarded = runs[r].forwarded]_vars

\* C3: after cancel() hit a Run that had no terminal event forwarded, no
\* terminal event of that Run is ever forwarded.
C3_CancellationSilence ==
  [][\A r \in DOMAIN runs :
       (runs[r].abortedBy = "cancel" /\ ~HasTerminal(runs[r].forwarded))
         => ~HasTerminal(runs'[r].forwarded)]_vars

\* C4: a Run that completed with its token untriggered has exactly one terminal
\* event forwarded, and that event is the last one.
C4_TerminalExclusivity ==
  \A r \in DOMAIN runs :
    (runs[r].hasCtl /\ runs[r].pc = "done" /\ ~runs[r].aborted) =>
      LET f == runs[r].forwarded IN
      /\ f # <<>>
      /\ Terminal(f[Len(f)])
      /\ \A i \in 1..(Len(f) - 1) : ~Terminal(f[i])

\* C5: whenever a conversation has a running Run, cancel() on that conversation
\* triggers that Run's token and leaves the conversation idle.
C5_CancelStopsRunningRun ==
  \A r \in DOMAIN runs :
    Live(r) =>
      LET after == CancelEffect(runs[r].conv) IN
      /\ after.runs[r].aborted
      /\ after.activeRuns[runs[r].conv] = 0

\* C6: once the window is closed, the token of every Run still in flight is
\* triggered, whichever handler created the Run.
C6_WindowClosedCancels ==
  window = "closed" =>
    \A r \in DOMAIN runs : (runs[r].hasCtl /\ runs[r].pc # "done") => runs[r].aborted

UnsupportedMessage(op) == IF op = "resume" THEN MSG_CODEX_RESUME ELSE MSG_CODEX_INTERRUPT

\* C7: resume and interrupt on the codex adapter yield exactly one error event
\* naming the unsupported operation, no done event, and do not throw, whatever
\* the arguments and the state of the signal.
C7_CodexUnsupported ==
  \A r \in DOMAIN runs :
    (runs[r].runtime = "codex" /\ runs[r].op # "stream" /\ runs[r].pc # "call") =>
      /\ runs[r].emitted = <<ErrorEvent(UnsupportedMessage(runs[r].op))>>
      /\ ~runs[r].failed /\ ~runs[r].escaped
      /\ runs[r].pc = "done"

C7_Witness ==
  \E r \in DOMAIN runs :
    /\ runs[r].runtime = "codex" /\ runs[r].op = "interrupt" /\ runs[r].decision = "edit"
    /\ runs[r].aborted
    /\ runs[r].pc = "done"
    /\ runs[r].emitted = <<ErrorEvent(MSG_CODEX_INTERRUPT)>>

\* C8: a begin (stream) on the claude-sdk or codex adapter that found an
\* identifier stored for its variant passes that identifier to the native call
\* (query({resume}) / resumeThread) and does not start a fresh session/thread.
C8_IdentifierReused ==
  \A r \in DOMAIN runs :
    (runs[r].op = "stream" /\ runs[r].runtime \in {"claude-sdk", "codex"}
       /\ Truthy(runs[r].idAtBegin) /\ runs[r].calls # NoCall) =>
      /\ runs[r].calls[1].id = runs[r].idAtBegin
      /\ runs[r].calls[1].fn = IF runs[r].runtime = "codex" THEN "resumeThread" ELSE "query"

C8_Witness ==
  \E r \in DOMAIN runs :
    /\ runs[r].op = "stream" /\ runs[r].runtime = "codex"
    /\ runs[r].idAtBegin \in NativeIds
    /\ runs[r].calls # NoCall /\ runs[r].calls[1].fn = "resumeThread"

\* resolve as the spec words it: the first valid kind among the candidates, in
\* order, and the fallback when none is valid.
RECURSIVE FirstValid(_)
FirstValid(candidates) ==
  IF candidates = <<>> THEN "deepagents"
  ELSE IF Head(candidates) \in VALID_RUNTIMES THEN Head(candidates)
  ELSE FirstValid(Tail(candidates))

\* C9: the runtime a submit resolves is the first valid kind among the env
\* override, the metadata's agentRuntime and the global default, else
\* 'deepagents'.
C9_ResolvePrecedence ==
  \A r \in DOMAIN runs :
    runs[r].runtime # "none" =>
      /\ runs[r].runtime =
           FirstValid(<<env, meta[runs[r].conv].agentRuntime, globalDefault>>)
      /\ (env = Undefined /\ meta[runs[r].conv].agentRuntime = "claude-sdk"
            /\ globalDefault = "deepagents") => runs[r].runtime = "claude-sdk"

C9_Witness ==
  \E r \in DOMAIN runs :
    /\ env = "bogus" /\ meta[runs[r].conv].agentRuntime = "claude-sdk"
    /\ globalDefault = "codex"
    /\ runs[r].runtime = "claude-sdk"

\* C10: no handler lets an exception escape, and a failed submit ends either in
\* a terminal error event or, when the Run was cancelled, in no event at all.
C10_NoRawException ==
  \A r \in DOMAIN runs :
    /\ ~runs[r].escaped
    /\ (runs[r].failed /\ runs[r].pc = "done") =>
         LET f == runs[r].forwarded IN
         \/ f = <<>> /\ runs[r].aborted
         \/ f # <<>> /\ f[Len(f)].type = "error"

ErrorEvents(evs) == {i \in DOMAIN evs : evs[i].type = "error"}

DoneEvents(evs) == {i \in DOMAIN evs : evs[i].type = "done"}

\* C11: when the native execution call of a Run whose token is untriggered
\* fails, whatever the error's name or message, the consumer has received
\* exactly one error event of that Run, carrying the message, and no done event.
C11_NativeFailureOneError ==
  [][\A r \in DOMAIN runs : \A error \in NativeErrors :
       (~runs[r].aborted /\ NativeThrow(r, error)) =>
         LET f == runs'[r].forwarded IN
         /\ Cardinality(ErrorEvents(f)) = 1
         /\ \A i \in ErrorEvents(f) : f[i] = ErrorEvent(error.message)
         /\ DoneEvents(f) = {}]_vars

\* The failures the transport reports as a consequence of an abort.
CancellationNoise == {E_Abort, E_Closed}

\* C12: a native failure reporting an abort ('AbortError', 'aborted',
\* 'Controller is already closed') after the Run's token was triggered adds no
\* event to what the backend yields nor to what the coordinator forwards.
C12_CancellationNoiseSwallowed ==
  [][\A r \in DOMAIN runs : \A error \in CancellationNoise :
       (runs[r].aborted /\ NativeThrow(r, error)) =>
         /\ runs'[r].emitted = runs[r].emitted
         /\ runs'[r].forwarded = runs[r].forwarded]_vars

\* C13: once the token of a Run is triggered, the backend's generator yields no
\* further event of any kind.
C13_NoYieldAfterAbort ==
  [][\A r \in DOMAIN runs :
       runs[r].aborted => runs'[r].emitted = runs[r].emitted]_vars

\* C14: a deepagents interrupt with an edit decision that ran to its end
\* (untriggered token, no failure) continued the graph (agent.stream from the
\* checkpoint) and ended with a terminal event, as approve does.
C14_EditContinuesAsApprove ==
  \A r \in DOMAIN runs :
    (runs[r].runtime = "deepagents" /\ runs[r].op = "interrupt"
       /\ runs[r].decision = "edit"
       /\ runs[r].pc = "done" /\ ~runs[r].aborted /\ ~runs[r].failed) =>
      /\ runs[r].calls # NoCall
      /\ HasTerminal(runs[r].emitted)

\* C15: a deepagents interrupt with a reject decision never streams the graph
\* and yields nothing but done: exactly the one done event once it has run to
\* its end without a failure.
C15_RejectOnlyDone ==
  \A r \in DOMAIN runs :
    (runs[r].runtime = "deepagents" /\ runs[r].op = "interrupt"
       /\ runs[r].decision = "reject") =>
      /\ runs[r].calls = NoCall
      /\ runs[r].emitted \in {<<>>, <<DoneEvent>>}
      /\ (runs[r].pc = "done" /\ ~runs[r].failed) => runs[r].emitted = <<DoneEvent>>

C15_Witness ==
  \E r \in DOMAIN runs :
    /\ runs[r].runtime = "deepagents" /\ runs[r].op = "interrupt"
    /\ runs[r].decision = "reject"
    /\ runs[r].pc = "done" /\ ~runs[r].aborted
    /\ runs[r].emitted = <<DoneEvent>> /\ runs[r].forwarded = <<DoneEvent>>

\* C16: once a native identifier is stored for a conversation and variant, no
\* step changes or removes the stored value.
C16_IdentifiersAppendOnly ==
  [][\A c \in DOMAIN meta :
       /\ Truthy(meta[c].claudeSessionId) =>
            meta'[c].claudeSessionId = meta[c].claudeSessionId
       /\ Truthy(meta[c].codexThreadId) =>
            meta'[c].codexThreadId = meta[c].codexThreadId]_vars

\* C17: a begin on the claude-sdk or codex adapter over unparsable metadata
\* reads the identifier as absent, starts a fresh session/thread, and is never
\* ended by the parse failure (no error event carrying the parse error).
C17_UnparsableMetadataIsAbsent ==
  \A r \in DOMAIN runs :
    (runs[r].op = "stream" /\ runs[r].runtime \in {"claude-sdk", "codex"}
       /\ JSONParseThrows(meta[runs[r].conv]) /\ runs[r].pc # "call") =>
      /\ runs[r].existing = Undefined
      /\ runs[r].calls # NoCall => runs[r].calls[1].id = Undefined
      /\ \A i \in DOMAIN runs[r].emitted : runs[r].emitted[i] # ErrorEvent(MSG_SYNTAX)

\* The metadata key an adapter keeps its native identifier under.
OwnKey(runtime) == IF runtime = "claude-sdk" THEN "claudeSessionId" ELSE "codexThreadId"

\* C18: a step that changes a conversation's metadata is a write of a native
\* identifier by a claude-sdk or codex Run, and every key other than that
\* adapter's own has the same value after the write as before.
C18_WriteOwnKeyOnly ==
  [][\A c \in DOMAIN meta :
       meta'[c] # meta[c] =>
         \E r \in DOMAIN runs :
           /\ runs[r].conv = c /\ runs[r].runtime \in {"claude-sdk", "codex"}
           /\ runs'[r].saves = runs[r].saves + 1
           /\ \A k \in DOMAIN meta[c] \ {OwnKey(runs[r].runtime)} :
                meta'[c][k] = meta[c][k]]_vars

C18_Witness ==
  \E r \in DOMAIN runs :
    /\ runs[r].runtime = "claude-sdk" /\ runs[r].saves = 1
    /\ meta[runs[r].conv].claudeSessionId = "n2"
    /\ meta[runs[r].conv].codexThreadId = "n1"
    /\ meta[runs[r].conv].workspacePath = "/ws"

\* The begin (agent:invoke) whose events carried the pause a decision answers:
\* the latest earlier Run of the conversation, a begin that ran on an adapter,
\* had a token or state event forwarded and whose stream ended by itself.
PausedRunOf(r) ==
  {r0 \in 1..(r - 1) :
     /\ runs[r0].conv = runs[r].conv /\ runs[r0].op = "stream"
     /\ runs[r0].runtime # "none" /\ runs[r0].pc = "done" /\ ~runs[r0].aborted
     /\ \E i \in DOMAIN runs[r0].forwarded : ~Terminal(runs[r0].forwarded[i])
     /\ \A r1 \in (r0 + 1)..(r - 1) : runs[r1].conv # runs[r].conv}

\* C19: a resume or interrupt decision is dispatched to the adapter that ran
\* the paused Run, whatever happened to the runtime settings in between.
C19_DecisionSameBackend ==
  \A r \in DOMAIN runs :
    (runs[r].op # "stream" /\ runs[r].runtime # "none") =>
      \A r0 \in PausedRunOf(r) : runs[r].runtime = runs[r0].runtime

\* C20: with the env override unset, the Run a submit creates uses the backend
\* that the conversation's override and the global default resolve to at the
\* time of that submit, whatever they were at earlier submits.
C20_ResolvedAfresh ==
  [][(env = Undefined /\ Len(runs') = Len(runs) + 1) =>
       LET new == runs'[Len(runs')] IN
       new.runtime # "none" =>
         new.runtime = FirstValid(<<meta[new.conv].agentRuntime, globalDefault>>)]_vars

C20_Witness ==
  /\ Len(runs) = 2
  /\ runs[1].runtime = "deepagents" /\ runs[2].runtime = "claude-sdk"
  /\ env = Undefined
  /\ meta[runs[2].conv].agentRuntime = Undefined /\ globalDefault = "claude-sdk"

Touched(c) ==
  \/ activeRuns'[c] # activeRuns[c]
  \/ \E r \in DOMAIN runs : runs[r].conv = c /\ runs'[r] # runs[r]
  \/ \E r \in DOMAIN runs' \ DOMAIN runs : runs'[r].conv = c

\* C22: no step (submit, cancel, native progress or completion of a Run)
\* changes the slot or a Run of more than one conversation.
C22_ConversationsIndependent ==
  [][\A c1, c2 \in DOMAIN meta :
       (c1 # c2 /\ Touched(c1)) => ~Touched(c2)]_vars

C22_Witness ==
  \E r1, r2 \in DOMAIN runs :
    /\ runs[r1].conv = "c1" /\ runs[r2].conv = "c2" /\ r1 < r2
    /\ runs[r1].abortedBy = "cancel" /\ runs[r1].pc = "done"
    /\ ~runs[r2].aborted /\ runs[r2].pc = "iter" /\ activeRuns["c2"] = r2
    /\ runs[r2].forwarded # <<>>

\* The conversation has no Run newer than r.
Newest(r) == \A r2 \in DOMAIN runs : runs[r2].conv = runs[r].conv => r2 <= r

\* C23: once a terminal event of a Run was forwarded, or a cancelled Run's
\* sequence has ended, and no newer submit came, the conversation has no
\* active-run slot; and no further event of a Run is forwarded after its
\* terminal event.
C23_TerminalDiscardsRun ==
  [][\A r \in DOMAIN runs :
       /\ HasTerminal(runs[r].forwarded) => runs'[r].forwarded = runs[r].forwarded
       /\ (Newest(r) /\ (HasTerminal(runs[r].forwarded)
                            \/ (runs[r].aborted /\ runs[r].pc = "done")))
            => activeRuns[runs[r].conv] = 0]_vars

\* C24: a Run writes the conversation's native identifier at most once.
C24_IdentifierWrittenOnce ==
  \A r \in DOMAIN runs : runs[r].saves <= 1

\* C25: cancel on a conversation with no registered Run leaves the Runs (their
\* tokens and forwarded events) and the active-run map as they are; this holds
\* right after a cancel too.
C25_CancelIdleNoEffect ==
  \A c \in DOMAIN meta :
    activeRuns[c] = 0 =>
      /\ CancelEffect(c).runs = runs
      /\ CancelEffect(c).activeRuns = activeRuns

C25_Witness ==
  \E r1, r2 \in DOMAIN runs :
    /\ r1 # r2 /\ runs[r1].conv = runs[r2].conv
    /\ runs[r1].abortedBy = "cancel" /\ activeRuns[runs[r1].conv] = 0
    /\ runs[r2].pc = "done" /\ ~runs[r2].aborted /\ HasTerminal(runs[r2].forwarded)

\* C27: every Run that is still forwarding with an untriggered token is the one
\* registered for its conversation in the active-run map.
C27_CleanupOwnSlotOnly ==
  \A r \in DOMAIN runs : Live(r) => activeRuns[runs[r].conv] = r

\* C26: every call of execFileNoThrow returned an ExecResult whose status is an
\* integer: 0 with the captured output when the command succeeded; on a failure
\* the captured stdout/stderr (or '') and the error's code when that is an
\* integer, 1 otherwise.
C26_ExecFileNoThrow ==
  \A i \in DOMAIN execs :
    LET o == execs[i].outcome
        res == execs[i].result
    IN /\ DOMAIN res = {"stdout", "stderr", "status"}
       /\ res.status.type = "number" /\ res.status.integer
       /\ res.stdout # Undefined /\ res.stderr # Undefined
       /\ o.resolved =>
            res = ExecResult(o.stdout, o.stderr, CodeNumber(0))
       /\ ~o.resolved =>
            /\ res.stdout = (IF o.stdout = Undefined THEN "" ELSE o.stdout)
            /\ res.stderr = (IF o.stderr = Undefined THEN "" ELSE o.stderr)
            /\ res.status = IF o.code \in {CodeNumber(n) : n \in {0, 1, 2, 127}}
                             THEN o.code ELSE CodeNumber(1)

C26_Witness ==
  \E i \in DOMAIN execs :
    /\ execs[i].outcome = Rejected(Undefined, "err", CodeString("ENOENT"))
    /\ execs[i].result = ExecResult("", "err", CodeNumber(1))

\* C28: a claude-sdk interrupt with a reject decision on a conversation that
\* has a session identifier stored yields exactly one event, done, and makes
\* no query call.
C28_ClaudeRejectTerminates ==
  \A r \in DOMAIN runs :
    (runs[r].runtime = "claude-sdk" /\ runs[r].op = "interrupt"
       /\ runs[r].decision = "reject" /\ runs[r].pc # "call"
       /\ Truthy(runs[r].idAtBegin)) =>
      /\ runs[r].emitted = <<DoneEvent>>
      /\ runs[r].calls = NoCall
      /\ runs[r].pc = "done"

C28_Witness ==
  \E r \in DOMAIN runs :
    /\ runs[r].runtime = "claude-sdk" /\ runs[r].op = "interrupt"
    /\ runs[r].decision = "reject" /\ runs[r].idAtBegin = "n1"
    /\ ~runs[r].aborted /\ runs[r].pc = "done"
    /\ runs[r].forwarded = <<DoneEvent>> /\ runs[r].calls = NoCall

\* C29: a claude-sdk interrupt with approve or edit on a conversation that has
\* a session identifier stored makes exactly one query call, and that call
\* resumes the identifier stored for the conversation.
C29_ClaudeApproveResumesSession ==
  \A r \in DOMAIN runs :
    (runs[r].runtime = "claude-sdk" /\ runs[r].op = "interrupt"
       /\ runs[r].decision \in {"approve", "edit"} /\ runs[r].pc # "call"
       /\ Truthy(runs[r].idAtBegin)) =>
      /\ Len(runs[r].calls) = 1
      /\ runs[r].calls[1].fn = "query"
      /\ runs[r].calls[1].id = runs[r].idAtBegin
      /\ runs[r].calls[1].id = meta[runs[r].conv].claudeSessionId

C29_Witness ==
  \E r \in DOMAIN runs :
    /\ runs[r].runtime = "claude-sdk" /\ runs[r].op = "interrupt"
    /\ runs[r].decision = "edit" /\ runs[r].pc = "done" /\ ~runs[r].aborted
    /\ runs[r].calls = <<NativeCall("query", "n2", "Continue with the approved action")>>
    /\ runs[r].forwarded = <<TokenEvent, DoneEvent>>

\* C30: a codex begin whose gate answered deny still runs the turn, under the
\* read-only policy, and when it ends uncancelled and without a failure its
\* last event is done.
C30_CodexDenyStillCompletes ==
  \A r \in DOMAIN runs :
    (runs[r].runtime = "codex" /\ runs[r].op = "stream"
       /\ runs[r].sandbox = "read-only") =>
      /\ Len(runs[r].calls) = 1 /\ runs[r].calls[1].arg = "read-only"
      /\ (runs[r].pc = "done" /\ ~runs[r].aborted /\ ~runs[r].failed) =>
           /\ runs[r].emitted # <<>>
           /\ runs[r].emitted[Len(runs[r].emitted)] = DoneEvent
           /\ Cardinality(DoneEvents(runs[r].emitted)) = 1
           /\ runs[r].forwarded = runs[r].emitted

C30_Witness ==
  \E r \in DOMAIN runs :
    /\ runs[r].runtime = "codex" /\ runs[r].op = "stream"
    /\ runs[r].sandbox = "read-only" /\ runs[r].pc = "done"
    /\ ~runs[r].aborted /\ ~runs[r].failed
    /\ runs[r].forwarded = <<TokenEvent, DoneEvent>>

C32_NoSessionOneError ==
  \A r \in DOMAIN runs :
    (runs[r].runtime = "claude-sdk" /\ runs[r].op \in {"resume", "interrupt"}
       /\ runs[r].pc # "call" /\ ~Truthy(runs[r].idAtBegin)) =>
      /\ runs[r].emitted = <<ErrorEvent(MSG_NO_SESSION)>>
      /\ runs[r].calls = NoCall
      /\ runs[r].saves = 0
      /\ ~Truthy(getSessionId(meta[runs[r].conv]))
      /\ runs[r].pc = "done"

C32_Witness ==
  \E r \in DOMAIN runs :
    /\ runs[r].runtime = "claude-sdk" /\ runs[r].op = "interrupt"
    /\ runs[r].decision = "reject" /\ runs[r].pc = "done" /\ ~runs[r].aborted
    /\ meta[runs[r].conv] = Metadata("/ws", Undefined, Undefined, "n1")
    /\ runs[r].forwarded = <<ErrorEvent(MSG_NO_SESSION)>>
    /\ runs[r].calls = NoCall

\* C33: a submit on a conversation whose metadata holds no working directory
\* sends exactly one error event and has no other effect: no adapter is created
\* and no native call is made, every Run already there keeps its state (its
\* signal is not aborted) and the active-run map is as it was.
C33_NoWorkspaceNoEffect ==
  [][\A c \in DOMAIN meta :
       (/\ Len(runs') = Len(runs) + 1
        /\ runs'[Len(runs')].conv = c
        /\ ~JSONParseThrows(meta[c])
        /\ ~Truthy(meta[c].workspacePath)) =>
         LET new == runs'[Len(runs')] IN
         /\ Len(new.forwarded) = 1 /\ new.forwarded[1].type = "error"
         /\ new.runtime = "none" /\ new.calls = NoCall /\ new.pc = "done"
         /\ \A r \in DOMAIN runs : runs'[r] = runs[r]
         /\ activeRuns' = activeRuns
         /\ meta' = meta]_vars

\* C34: when the approval gate of a codex stream returns and the Run's signal
\* was aborted while it was suspended there, the adapter stops: it makes no
\* startThread or resumeThread call, yields nothing and saves no identifier.
C34_CodexStopsAtGate ==
  [][\A r \in DOMAIN runs :
       (/\ runs[r].runtime = "codex" /\ runs[r].pc = "gate" /\ runs[r].aborted
        /\ runs'[r] # runs[r]) =>
         /\ runs'[r].pc = "done"
         /\ runs'[r].calls = NoCall
         /\ runs'[r].emitted = <<>>
         /\ runs'[r].saves = 0]_vars

\* C35: a Run saves a native identifier only while its own signal is not
\* aborted, and not while another Run of the same conversation that has also
\* saved an identifier is still running with its signal not aborted.
C35_OneWriterAtATime ==
  [][\A r \in DOMAIN runs :
       runs'[r].saves > runs[r].saves =>
         /\ ~runs[r].aborted
         /\ \A r2 \in DOMAIN runs \ {r} :
              ~(runs[r2].conv = runs[r].conv /\ Live(r2) /\ runs[r2].saves > 0)]_vars

C37_TypeCheckAlwaysRunsTsc ==
  \A i \in DOMAIN validations :
    validations[i].validator = "typecheck" =>
      LET v == validations[i] IN
      /\ Len(v.invocations) >= 1
      /\ \A j \in DOMAIN v.invocations : v.invocations[j][1] = "tsc"
      /\ (v.input \cap TsConfigNames = {}) =>
           /\ Len(v.invocations) = 1
           /\ \A k \in DOMAIN v.invocations[1] : v.invocations[1][k] # "-p"

RECURSIVE FlatMessages(_)
\* The messages of an ESLint report, file after file, each with its file.
FlatMessages(report) ==
  IF report = <<>> THEN <<>>
  ELSE [k \in DOMAIN Head(report).messages |->
          [filePath |-> Head(report).filePath, msg |-> Head(report).messages[k]]]
         \o FlatMessages(Tail(report))

PlatformAttempts == SelectSeq(publish.attempts, LAMBDA a : a.pkg # "openwork")

Succeeded(a) == a.outcome \in {"published", "skipped"}

\* The main package is attempted only after every platform package succeeded.
MainAfterAllPlatforms ==
  \A k \in DOMAIN publish.attempts :
    publish.attempts[k].pkg = "openwork" =>
      /\ k = Len(Platforms) + 1
      /\ \A j \in 1..Len(Platforms) :
           /\ publish.attempts[j].pkg = "@langchain/openwork-" \o Platforms[j].key
           /\ Succeeded(publish.attempts[j])

\* A run in which a platform package failed ends with exit code 1 and makes
\* no attempt on the main package.
PlatformFailureFailsRun ==
  (\E j \in DOMAIN PlatformAttempts : ~Succeeded(PlatformAttempts[j])) =>
    /\ Len(PlatformAttempts) = Len(publish.attempts)
    /\ publish.pc = "exited" => publish.exit = 1

\* A run in which a platform package failed still attempts every platform.
AllPlatformsAttempted ==
  (publish.pc = "exited" /\ \E j \in DOMAIN PlatformAttempts : ~Succeeded(PlatformAttempts[j])) =>
    Len(PlatformAttempts) = Len(Platforms)

\* C39: the main package is published only after every platform package was
\* published or skipped as already existing; every platform package is
\* attempted even after one failed; and when one failed the script exits with
\* a failure and never publishes the main package.
C39_MainAfterAllPlatforms ==
  MainAfterAllPlatforms /\ AllPlatformsAttempted /\ PlatformFailureFailsRun

====
